---- MODULE Spec2Model ----
(***************************************************************************)
(* A model of the PDF object writer of pdf_utils/writer.py: the indirect   *)
(* object table, write() with its position dictionary and the two          *)
(* cross-reference encodings, and the page tree navigator / mutator; and   *)
(* of the CMS attribute providers of pyhanko/sign/attributes.py.           *)
(***************************************************************************)
EXTENDS Integers, Sequences, FiniteSets, TLC

VARIABLES
    objects,           \* self.objects: idnum -> object (generation is always 0)
    lastobj_id,        \* self._lastobj_id
    stream_xrefs,      \* self.stream_xrefs
    encrypt,           \* self._encrypt: 0 for None, else the idnum of the encryption dictionary
    marked,            \* the references mark_update was called on by the last operation
    last,              \* the last operation called on the writer and what it returned or raised
    pc,                \* the position of write(): idle, objects, xref, serialize, done
    object_positions,  \* write()'s position dictionary, (generation, idnum) -> offset
    pos_writes,        \* how many times write() has assigned each key of the position dictionary
    out,               \* the output stream, as the sequence of the pieces written to it
    provider,          \* a CMS attribute provider instance: its class and its fields
    timestamper        \* the calls received by the TimeStamper the provider holds, in order

vars == <<objects, lastobj_id, stream_xrefs, encrypt, marked, last, pc,
          object_positions, pos_writes, out, provider, timestamper>>

---------------------------------------------------------------------------
(* Bounds of the model. *)

\* allocations stop when _lastobj_id reaches this
MaxObj == 6
\* register_annotation is not called once the document holds this many annotations
MaxAnnots == 2
\* the object ids of the position dictionaries handed to the cross-reference encoder
MaxId == 4
\* a timestamper is not called once it has received this many calls
MaxCalls == 3

---------------------------------------------------------------------------
(* The object model (pdf_utils.generic), as far as the writer looks at it. *)
(* A dictionary object is a record; an absent key is 0, "absent" or an     *)
(* empty array.  Kids and Annots are either a direct array (ref = 0) or an *)
(* indirect reference to an Array object (ref # 0).                        *)

DirectArr(a) == [ref |-> 0, arr |-> a]
IndirectArr(r) == [ref |-> r, arr |-> <<>>]
NoAnnots == [st |-> "absent", ref |-> 0, arr |-> <<>>]
DirectAnnots(a) == [st |-> "direct", ref |-> 0, arr |-> a]
IndirectAnnots(r) == [st |-> "indirect", ref |-> r, arr |-> <<>>]

Obj(type, count, kids, parent, annots, items, pages, resources) ==
    [type |-> type, Count |-> count, Kids |-> kids, Parent |-> parent,
     Annots |-> annots, items |-> items, Pages |-> pages, Resources |-> resources]

CatalogObj(pages) == Obj("Catalog", 0, DirectArr(<<>>), 0, NoAnnots, <<>>, pages, "absent")
InfoObj == Obj("Info", 0, DirectArr(<<>>), 0, NoAnnots, <<>>, 0, "absent")
PagesObj(count, kids, parent, resources) ==
    Obj("Pages", count, kids, parent, NoAnnots, <<>>, 0, resources)
PageDict(parent, annots, resources) ==
    Obj("Page", 0, DirectArr(<<>>), parent, annots, <<>>, 0, resources)
ArrayObj(items) == Obj("Array", 0, DirectArr(<<>>), 0, NoAnnots, items, 0, "absent")
AnnotObj == Obj("Annot", 0, DirectArr(<<>>), 0, NoAnnots, <<>>, 0, "absent")

\* PageObject.__init__: resources default to an empty dictionary, no /Parent, no /Annots
PageObject(resources) ==
    PageDict(0, NoAnnots, IF resources = "absent" THEN "empty" ELSE resources)

\* self._root: the catalog is the first object allocated
root_ref == 1

\* dereference Kids / Annots (raw_get, then get_object when it is a reference)
KidsOf(objs, ref) ==
    IF objs[ref].Kids.ref # 0 THEN objs[objs[ref].Kids.ref].items ELSE objs[ref].Kids.arr
AnnotsOf(objs, ref) ==
    IF objs[ref].Annots.st = "indirect" THEN objs[objs[ref].Annots.ref].items
    ELSE objs[ref].Annots.arr

\* list.insert(i, x) for 0 <= i <= len
ListInsert(s, i, x) == SubSeq(s, 1, i) \o <<x>> \o SubSeq(s, i + 1, Len(s))

---------------------------------------------------------------------------
(* _walk_page_tree *)

WalkError(msg) ==
    [status |-> "ValueError", msg |-> msg, ref |-> 0, kid_index |-> -1,
     rsrc |-> "absent", upd |-> 0]
WalkOk(ref, kid_index, rsrc, upd) ==
    [status |-> "ok", msg |-> "", ref |-> ref, kid_index |-> kid_index,
     rsrc |-> rsrc, upd |-> upd]

RECURSIVE _recurse(_, _, _, _, _, _, _)
RECURSIVE _recurse_kids(_, _, _, _, _, _, _, _, _)

\* the loop with the upper end of a child's range taken in
RECURSIVE _recurse_kids_wide(_, _, _, _, _, _, _, _, _)
_recurse_kids_wide(objs, page_ix, retrieve_parent, pages_obj_ref, kids, k, cur_page_ix, last_rsrc_dict, prev_last_indir) ==
    IF k > Len(kids) THEN WalkError("Page not found")
    ELSE LET kid_ref == kids[k]
             kid == objs[kid_ref]
         IN  IF kid.type = "Pages" THEN
                 IF cur_page_ix <= page_ix /\ page_ix <= cur_page_ix + kid.Count
                 THEN _recurse(objs, page_ix, retrieve_parent, cur_page_ix,
                               kid_ref, last_rsrc_dict, kid_ref)
                 ELSE _recurse_kids_wide(objs, page_ix, retrieve_parent, pages_obj_ref,
                                    kids, k + 1, cur_page_ix + kid.Count,
                                    last_rsrc_dict, prev_last_indir)
             ELSE IF kid.type = "Page" THEN
                 IF cur_page_ix = page_ix THEN
                     IF retrieve_parent
                     THEN WalkOk(pages_obj_ref, k - 1, last_rsrc_dict, prev_last_indir)
                     ELSE WalkOk(kid_ref, -1,
                                 IF kid.Resources # "absent" THEN kid.Resources
                                 ELSE last_rsrc_dict, 0)
                 ELSE _recurse_kids_wide(objs, page_ix, retrieve_parent, pages_obj_ref,
                                    kids, k + 1, cur_page_ix + 1,
                                    last_rsrc_dict, prev_last_indir)
             ELSE _recurse_kids_wide(objs, page_ix, retrieve_parent, pages_obj_ref,
                                kids, k + 1, cur_page_ix,
                                last_rsrc_dict, prev_last_indir)

\* the for loop of _recurse, at the 1-based position k of kids
_recurse_kids(objs, page_ix, retrieve_parent, pages_obj_ref, kids, k, cur_page_ix, last_rsrc_dict, prev_last_indir) ==
    IF k > Len(kids) THEN WalkError("Page not found")
    ELSE LET kid_ref == kids[k]
             kid == objs[kid_ref]
         IN  IF kid.type = "Pages" THEN
                 IF cur_page_ix <= page_ix /\ page_ix < cur_page_ix + kid.Count
                 THEN _recurse(objs, page_ix, retrieve_parent, cur_page_ix,
                               kid_ref, last_rsrc_dict, kid_ref)
                 ELSE _recurse_kids(objs, page_ix, retrieve_parent, pages_obj_ref,
                                    kids, k + 1, cur_page_ix + kid.Count,
                                    last_rsrc_dict, prev_last_indir)
             ELSE IF kid.type = "Page" THEN
                 IF cur_page_ix = page_ix THEN
                     IF retrieve_parent
                     THEN WalkOk(pages_obj_ref, k - 1, last_rsrc_dict, prev_last_indir)
                     ELSE WalkOk(kid_ref, -1,
                                 IF kid.Resources # "absent" THEN kid.Resources
                                 ELSE last_rsrc_dict, 0)
                 ELSE _recurse_kids(objs, page_ix, retrieve_parent, pages_obj_ref,
                                    kids, k + 1, cur_page_ix + 1,
                                    last_rsrc_dict, prev_last_indir)
             ELSE _recurse_kids(objs, page_ix, retrieve_parent, pages_obj_ref,
                                kids, k + 1, cur_page_ix,
                                last_rsrc_dict, prev_last_indir)

\* a node's own /Resources left unread
_recurse_keeps_inherited(objs, page_ix, retrieve_parent, first_page_ix, pages_obj_ref, last_rsrc_dict, prev_last_indir) ==
    _recurse_kids(objs, page_ix, retrieve_parent, pages_obj_ref,
                  KidsOf(objs, pages_obj_ref), 1, first_page_ix,
                  last_rsrc_dict, prev_last_indir)

_recurse(objs, page_ix, retrieve_parent, first_page_ix, pages_obj_ref, last_rsrc_dict, prev_last_indir) ==
    LET pages_obj == objs[pages_obj_ref]
        kids == KidsOf(objs, pages_obj_ref)
        rsrc == IF pages_obj.Resources # "absent" THEN pages_obj.Resources
                ELSE last_rsrc_dict
    IN  _recurse_kids(objs, page_ix, retrieve_parent, pages_obj_ref, kids, 1,
                      first_page_ix, rsrc, prev_last_indir)

\* the walk with an index equal to the page count let through
_walk_page_tree_lax(objs, page_ix, retrieve_parent) ==
    LET page_tree_root_ref == objs[root_ref].Pages
        page_tree_root == objs[page_tree_root_ref]
        root_resources == IF page_tree_root.Resources # "absent"
                          THEN page_tree_root.Resources ELSE "empty"
        page_count == page_tree_root.Count
    IN  IF ~(0 <= page_ix /\ page_ix <= page_count)
        THEN WalkError("Page index out of range")
        ELSE _recurse(objs, page_ix, retrieve_parent, 0, page_tree_root_ref,
                      root_resources, page_tree_root_ref)

_walk_page_tree(objs, page_ix, retrieve_parent) ==
    LET page_tree_root_ref == objs[root_ref].Pages
        page_tree_root == objs[page_tree_root_ref]
        root_resources == IF page_tree_root.Resources # "absent"
                          THEN page_tree_root.Resources ELSE "empty"
        page_count == page_tree_root.Count
    IN  IF ~(0 <= page_ix /\ page_ix < page_count)
        THEN WalkError("Page index out of range")
        ELSE _recurse(objs, page_ix, retrieve_parent, 0, page_tree_root_ref,
                      root_resources, page_tree_root_ref)

find_page_container(objs, page_ix) == _walk_page_tree(objs, page_ix, TRUE)
find_page_for_modification(objs, page_ix) == _walk_page_tree(objs, page_ix, FALSE)

---------------------------------------------------------------------------
(* add_object, insert_page, register_annotation as functions of the state. *)

\* the object stored under the counter before it is incremented
add_object_at_counter(objs, lastid, obj) == (lastid :> obj) @@ objs

\* add_object: the object table after self.objects[(0, lastid + 1)] = obj,
\* which replaces whatever the key held
add_object(objs, lastid, obj) == ((lastid + 1) :> obj) @@ objs

\* Count + 1 on the container alone
IncreaseCountOfContainer(objs, ref) == [objs EXCEPT ![ref].Count = @ + 1]

\* the while loop of insert_page: Count + 1 on ref and on every /Parent above it
RECURSIVE IncreaseCounts(_, _)
IncreaseCounts(objs, ref) ==
    IF ref = 0 THEN objs
    ELSE IncreaseCounts([objs EXCEPT ![ref].Count = @ + 1], objs[ref].Parent)

\* the reference appended to the array instead of inserted after kid_ix
AppendKid(objs, pages_obj_ref, kid_ix, new_page_ref) ==
    IF objs[pages_obj_ref].Kids.ref # 0
    THEN [objs EXCEPT ![objs[pages_obj_ref].Kids.ref].items = Append(@, new_page_ref)]
    ELSE [objs EXCEPT ![pages_obj_ref].Kids.arr = Append(@, new_page_ref)]

\* kids.insert(kid_ix + 1, new_page_ref) on the array the container's /Kids names
InsertKid(objs, pages_obj_ref, kid_ix, new_page_ref) ==
    IF objs[pages_obj_ref].Kids.ref # 0
    THEN [objs EXCEPT ![objs[pages_obj_ref].Kids.ref].items = ListInsert(@, kid_ix + 1, new_page_ref)]
    ELSE [objs EXCEPT ![pages_obj_ref].Kids.arr = ListInsert(@, kid_ix + 1, new_page_ref)]

\* the mark_update calls that end insert_page
InsertMarks(upd_boundary, kids_update_boundary) ==
    {upd_boundary} \cup (IF upd_boundary # kids_update_boundary THEN {kids_update_boundary} ELSE {})

OpError(objs, lastid, msg) ==
    [status |-> "ValueError", msg |-> msg, objects |-> objs, lastobj_id |-> lastid,
     marked |-> {}, ref |-> 0]

\* after is [given |-> FALSE, v |-> 0] for None, else [given |-> TRUE, v |-> the index]
insert_page(objs, lastid, new_page, after) ==
    IF new_page.type # "Page" THEN OpError(objs, lastid, "Not a page object")
    ELSE IF new_page.Parent # 0 THEN OpError(objs, lastid, "/Parent must not be set.")
    ELSE
    LET page_tree_root_ref == objs[root_ref].Pages
        aft == IF after.given THEN after.v ELSE objs[page_tree_root_ref].Count - 1
        found == IF aft = -1 THEN WalkOk(page_tree_root_ref, -1, "absent", page_tree_root_ref)
                 ELSE find_page_container(objs, aft)
    IN  IF found.status # "ok" THEN OpError(objs, lastid, found.msg)
        ELSE
        LET pages_obj_ref == found.ref
            kid_ix == found.kid_index
            upd_boundary == found.upd
            kids_ref == objs[pages_obj_ref].Kids.ref
            kids_update_boundary == IF kids_ref # 0 THEN kids_ref ELSE upd_boundary
            counted == IncreaseCounts(objs, pages_obj_ref)
            new_page_ref == lastid + 1
            added == add_object(counted, lastid, new_page)
            inserted == InsertKid(added, pages_obj_ref, kid_ix, new_page_ref)
        IN  [status |-> "ok", msg |-> "",
             objects |-> [inserted EXCEPT ![new_page_ref].Parent = pages_obj_ref],
             lastobj_id |-> new_page_ref,
             marked |-> InsertMarks(upd_boundary, kids_update_boundary),
             ref |-> new_page_ref]

\* the reference register_annotation hands to mark_update
AnnotationMark(objs, page_ref, annot_ref) ==
    IF objs[page_ref].Annots.st = "indirect" THEN annot_ref ELSE page_ref

register_annotation(objs, lastid, page_ref, annot_ref) ==
    LET page_obj == objs[page_ref]
        appended ==
            IF page_obj.Annots.st = "indirect"
            THEN [objs EXCEPT ![page_obj.Annots.ref].items = Append(@, annot_ref)]
            ELSE [objs EXCEPT ![page_ref].Annots = DirectAnnots(Append(page_obj.Annots.arr, annot_ref))]
    IN  [status |-> "ok", msg |-> "", objects |-> appended, lastobj_id |-> lastid,
         marked |-> {AnnotationMark(objs, page_ref, annot_ref)}, ref |-> 0]

---------------------------------------------------------------------------
(* The cross-reference encoder. A position dictionary is a function from   *)
(* (generation, idnum) pairs to offsets.                                   *)

\* generation number of the free-object entry, b'0000000000 65535 f \n'
FreeGeneration == 65535

\* sorted(position_dict.keys(), key=lambda t: t[1])
RECURSIVE SortedByIdnum(_)
SortedByIdnum(keys) ==
    IF keys = {} THEN <<>>
    ELSE LET least == CHOOSE k \in keys : \A o \in keys : k[2] <= o[2]
         IN  <<least>> \o SortedByIdnum(keys \ {least})

\* the loop with first_idnum left as it was when the idnum jumps
RECURSIVE _chunks_loop_stale_first(_, _, _, _, _, _, _)
_chunks_loop_stale_first(position_dict, key_iter, i, first_idnum, current_chunk, previous_idnum, yielded) ==
    IF i > Len(key_iter) THEN Append(yielded, <<first_idnum, current_chunk>>)
    ELSE LET ix == key_iter[i]
             generation == ix[1]
             idnum == ix[2]
             jumped == current_chunk # <<>> /\ idnum # previous_idnum + 1
         IN  _chunks_loop_stale_first(position_dict, key_iter, i + 1,
                          first_idnum,
                          Append(IF jumped THEN <<>> ELSE current_chunk,
                                 <<position_dict[ix], generation>>),
                          idnum,
                          IF jumped THEN Append(yielded, <<first_idnum, current_chunk>>)
                          ELSE yielded)

\* the for loop of _contiguous_xref_chunks, at position i of key_iter;
\* yielded are the (first_idnum, chunk) pairs yielded so far
RECURSIVE _chunks_loop(_, _, _, _, _, _, _)
_chunks_loop(position_dict, key_iter, i, first_idnum, current_chunk, previous_idnum, yielded) ==
    IF i > Len(key_iter) THEN Append(yielded, <<first_idnum, current_chunk>>)
    ELSE LET ix == key_iter[i]
             generation == ix[1]
             idnum == ix[2]
             jumped == current_chunk # <<>> /\ idnum # previous_idnum + 1
         IN  _chunks_loop(position_dict, key_iter, i + 1,
                          IF jumped THEN idnum ELSE first_idnum,
                          Append(IF jumped THEN <<>> ELSE current_chunk,
                                 <<position_dict[ix], generation>>),
                          idnum,
                          IF jumped THEN Append(yielded, <<first_idnum, current_chunk>>)
                          ELSE yielded)

\* the chunks _contiguous_xref_chunks yields for a non-empty dictionary
_contiguous_xref_chunks(position_dict) ==
    LET key_iter == SortedByIdnum(DOMAIN position_dict)
    IN  _chunks_loop(position_dict, key_iter, 1, key_iter[1][2], <<>>, 0, <<>>)

\* the lines of a classic table
XHeader(idnum, length) == [t |-> "hdr", a |-> idnum, b |-> length]
XEntry(position, generation) == [t |-> "n", a |-> position, b |-> generation]
null_obj_ref == [t |-> "f", a |-> 0, b |-> FreeGeneration]

\* write_subsection
write_subsection(chunk) == [i \in 1..Len(chunk) |-> XEntry(chunk[i][1], chunk[i][2])]

\* the for loop that ends write_xref_table, from subsection i on
RECURSIVE write_rest(_, _)
write_rest(subsections, i) ==
    IF i > Len(subsections) THEN <<>>
    ELSE <<XHeader(subsections[i][1], Len(subsections[i][2]))>>
         \o write_subsection(subsections[i][2]) \o write_rest(subsections, i + 1)

\* the free-object entry left out of the first header's count
write_first_uncounted(first_idnum, subsection) ==
    IF first_idnum = 1
    THEN <<XHeader(0, Len(subsection)), null_obj_ref>> \o write_subsection(subsection)
    ELSE <<XHeader(0, 1), null_obj_ref, XHeader(first_idnum, Len(subsection))>>
         \o write_subsection(subsection)

\* the first subsection of write_xref_table, with the free-object entry
write_first(first_idnum, subsection) ==
    IF first_idnum = 1
    THEN <<XHeader(0, Len(subsection) + 1), null_obj_ref>> \o write_subsection(subsection)
    ELSE <<XHeader(0, 1), null_obj_ref, XHeader(first_idnum, Len(subsection))>>
         \o write_subsection(subsection)

\* the lines write_xref_table writes after the xref keyword
write_xref_table(position_dict) ==
    LET subsections == _contiguous_xref_chunks(position_dict)
    IN  write_first(subsections[1][1], subsections[1][2]) \o write_rest(subsections, 2)

\* encryption keys: None, the writer's base key, or a key derived for one object
NoKey == [set |-> FALSE, idnum |-> 0, generation |-> 0]
BaseKey == [set |-> TRUE, idnum |-> 0, generation |-> 0]
\* _derive_key: the digest is taken as a one-to-one function of the base key,
\* the low three bytes of idnum and the low two bytes of generation
_derive_key(base_key, idnum, generation) ==
    [set |-> TRUE, idnum |-> idnum % 16777216, generation |-> generation % 65536]

\* the /Index array and the entries of XRefStream.write_to_stream
RECURSIVE XRefIndex(_, _)
XRefIndex(subsections, i) ==
    IF i > Len(subsections) THEN <<>>
    ELSE <<subsections[i][1], Len(subsections[i][2])>> \o XRefIndex(subsections, i + 1)
RECURSIVE XRefContent(_, _)
XRefContent(subsections, i) ==
    IF i > Len(subsections) THEN <<>>
    ELSE [j \in 1..Len(subsections[i][2]) |->
             <<1, subsections[i][2][j][1], subsections[i][2][j][2]>>]
         \o XRefContent(subsections, i + 1)

\* XRefStream.write_to_stream: what it raises, or the /Index and _data it serialises
XRefStream_write_to_stream(position_dict, encryption_key) ==
    IF encryption_key # NoKey
    THEN [status |-> "ValueError", msg |-> "XRef streams cannot be encrypted",
          index |-> <<>>, data |-> <<>>]
    ELSE LET subsections == _contiguous_xref_chunks(position_dict)
         IN  [status |-> "ok", msg |-> "",
              index |-> <<0, 1>> \o XRefIndex(subsections, 1),
              data |-> <<<<0, 0, FreeGeneration>>>> \o XRefContent(subsections, 1)]

---------------------------------------------------------------------------
(* The output stream and write(). *)

EmptyDict == [k \in {} |-> 0]

\* dict[k] = v
Assign(d, k, v) == [x \in DOMAIN d \cup {k} |-> IF x = k THEN v ELSE d[x]]
\* one more assignment of key k
Bump(w, k) ==
    [x \in DOMAIN w \cup {k} |-> IF x = k THEN (IF k \in DOMAIN w THEN w[k] + 1 ELSE 1) ELSE w[x]]

\* a piece written to the stream: what it is, the object it belongs to, its
\* length in bytes, the key its body was written with and what it holds
Piece(kind, id, len, key, data) ==
    [kind |-> kind, id |-> id, len |-> len, key |-> key, data |-> data]

\* stream.tell()
RECURSIVE Tell(_)
Tell(o) == IF o = <<>> THEN 0 ELSE o[Len(o)].len + Tell(SubSeq(o, 1, Len(o) - 1))

\* the number of characters of '%d' % n
RECURSIVE DecLen(_)
DecLen(n) == IF n < 10 THEN 1 ELSE 1 + DecLen(n \div 10)

\* the length of what obj.write_to_stream writes: it grows with the arrays
\* and numbers the object holds
BodyLen(obj) ==
    4 + DecLen(obj.Count) + 4 * (Len(obj.Kids.arr) + Len(obj.Annots.arr) + Len(obj.items))

\* '%d %d obj', the body and '\nendobj\n'
ObjectLen(idnum, generation, obj) ==
    DecLen(idnum) + 1 + DecLen(generation) + 4 + BodyLen(obj) + 8

\* PdfFileWriter._write_header: '%PDF-1.7\n' and the line of binary characters
HeaderLen == 17

\* a position taken after the '%d %d obj' line instead of before it
RecordedPositionLate(stream) == Tell(stream) + 7

\* the offset _write_objects records for the object it is about to write
RecordedPosition(stream) == Tell(stream)

\* the key _write_objects hands to obj.write_to_stream
ObjectKey(enc, idnum, generation) ==
    IF enc # 0 /\ idnum # enc THEN _derive_key(BaseKey, idnum, generation) ELSE NoKey

\* sorted(self.objects.keys())
RECURSIVE SortedKeys(_)
SortedKeys(keys) ==
    IF keys = {} THEN <<>>
    ELSE LET least == CHOOSE k \in keys : \A o \in keys :
                          k[1] < o[1] \/ (k[1] = o[1] /\ k[2] <= o[2])
         IN  <<least>> \o SortedKeys(keys \ {least})

\* the for loop of _write_objects, at position i of the sorted keys; st holds
\* the stream, the position dictionary and the count of its assignments
RECURSIVE _write_objects_loop(_, _, _, _, _)
_write_objects_loop(objs, enc, keys, i, st) ==
    IF i > Len(keys) THEN st
    ELSE LET ix == keys[i]
             generation == ix[1]
             idnum == ix[2]
             obj == objs[idnum]
         IN  _write_objects_loop(objs, enc, keys, i + 1,
                 [out |-> Append(st.out, Piece("obj", idnum, ObjectLen(idnum, generation, obj),
                                               ObjectKey(enc, idnum, generation), <<>>)),
                  positions |-> Assign(st.positions, ix, RecordedPosition(st.out)),
                  writes |-> Bump(st.writes, ix)])

_write_objects(objs, enc, st) ==
    _write_objects_loop(objs, enc, SortedKeys({<<0, id>> : id \in DOMAIN objs}), 1, st)

\* the writer's own key handed on to the trailer
TrailerKeyOfWriter(enc) == IF enc # 0 THEN BaseKey ELSE NoKey

\* the key write() hands to trailer.write_to_stream
TrailerKey(enc) == NoKey

\* the id write() reserves for the cross-reference stream
XRefsId(lastid) == lastid + 1

---------------------------------------------------------------------------
(* The documents a writer starts from. The catalog is object 1. *)

\* PdfFileWriter.__init__: catalog, info and an empty page tree root;
\* stream_xrefs is left at its default
NewDocument ==
    [objects |-> <<CatalogObj(3), InfoObj, PagesObj(0, DirectArr(<<>>), 0, "absent")>>,
     encrypt |-> 0, modes |-> {TRUE}]

\* a root above a nested node whose /Kids is an indirect array
NestedDocument ==
    [objects |-> <<CatalogObj(2),
                   PagesObj(1, DirectArr(<<3>>), 0, "R1"),
                   PagesObj(1, IndirectArr(4), 2, "absent"),
                   ArrayObj(<<5>>),
                   PageDict(3, NoAnnots, "absent")>>,
     encrypt |-> 0, modes |-> BOOLEAN]

\* three levels of Pages nodes above one page
DeepDocument ==
    [objects |-> <<CatalogObj(2),
                   PagesObj(1, DirectArr(<<3>>), 0, "absent"),
                   PagesObj(1, DirectArr(<<4>>), 2, "R1"),
                   PagesObj(1, DirectArr(<<5>>), 3, "absent"),
                   PageDict(4, DirectAnnots(<<>>), "absent")>>,
     encrypt |-> 0, modes |-> BOOLEAN]

\* a root above a Pages node with one page, followed by a page of its own
MixedDocument ==
    [objects |-> <<CatalogObj(2),
                   PagesObj(2, DirectArr(<<3, 5>>), 0, "absent"),
                   PagesObj(1, DirectArr(<<4>>), 2, "R1"),
                   PageDict(3, NoAnnots, "R2"),
                   PageDict(2, NoAnnots, "absent")>>,
     encrypt |-> 0, modes |-> BOOLEAN]

\* a root that holds /Kids by reference
RootKidsDocument ==
    [objects |-> <<CatalogObj(2),
                   PagesObj(1, IndirectArr(3), 0, "absent"),
                   ArrayObj(<<4>>),
                   PageDict(2, NoAnnots, "empty")>>,
     encrypt |-> 0, modes |-> BOOLEAN]

\* an encrypted document whose page holds /Annots by reference
EncryptedDocument ==
    [objects |-> <<CatalogObj(2),
                   PagesObj(1, DirectArr(<<3>>), 0, "absent"),
                   PageDict(2, IndirectAnnots(4), "empty"),
                   ArrayObj(<<>>),
                   Obj("Encrypt", 0, DirectArr(<<>>), 0, NoAnnots, <<>>, 0, "absent")>>,
     encrypt |-> 5, modes |-> BOOLEAN]

\* a page tree without pages, the root holding an empty Pages node
HollowDocument ==
    [objects |-> <<CatalogObj(2),
                   PagesObj(0, DirectArr(<<3>>), 0, "R1"),
                   PagesObj(0, DirectArr(<<>>), 2, "absent")>>,
     encrypt |-> 0, modes |-> BOOLEAN]

Documents ==
    {NewDocument, NestedDocument, DeepDocument, MixedDocument, RootKidsDocument,
     EncryptedDocument, HollowDocument}

\* documents that are not standards-compliant: a /Count that disagrees with /Kids
OvercountedDocument ==
    [objects |-> <<CatalogObj(2),
                   PagesObj(2, DirectArr(<<3>>), 0, "absent"),
                   PageDict(2, NoAnnots, "empty")>>,
     encrypt |-> 0, modes |-> BOOLEAN]
OvercountedInnerDocument ==
    [objects |-> <<CatalogObj(2),
                   PagesObj(3, DirectArr(<<3, 5>>), 0, "absent"),
                   PagesObj(2, DirectArr(<<4>>), 2, "absent"),
                   PageDict(3, NoAnnots, "empty"),
                   PageDict(2, NoAnnots, "empty")>>,
     encrypt |-> 0, modes |-> BOOLEAN]
UndercountedDocument ==
    [objects |-> <<CatalogObj(2),
                   PagesObj(1, DirectArr(<<3, 4>>), 0, "absent"),
                   PageDict(2, NoAnnots, "empty"),
                   PageDict(2, NoAnnots, "empty")>>,
     encrypt |-> 0, modes |-> BOOLEAN]

NonCompliantDocuments == {OvercountedDocument, OvercountedInnerDocument, UndercountedDocument}

\* the objects handed to insert_page: a PageObject made without resources,
\* an object that is no page, and a page that has a /Parent
NewPage == PageObject("absent")
NotAPage == AnnotObj
ParentedPage == PageDict(2, NoAnnots, "empty")

\* the number of annotations registered in the pages of the document
RECURSIVE CountAnnots(_, _)
CountAnnots(objs, ids) ==
    IF ids = {} THEN 0
    ELSE LET i == CHOOSE j \in ids : TRUE
         IN  (IF objs[i].type = "Page" THEN Len(AnnotsOf(objs, i)) ELSE 0)
             + CountAnnots(objs, ids \ {i})

RootCount == objects[objects[root_ref].Pages].Count

\* the values of after: None, and the indexes from -1 to one past the last page
AfterNone == [given |-> FALSE, v |-> 0]
AfterInputs == {AfterNone} \cup {[given |-> TRUE, v |-> n] : n \in -1..RootCount}

\* the calls of insert_page: the page at every position, the others once
InsertInputs ==
    {<<NewPage, after>> : after \in AfterInputs}
        \cup {<<NotAPage, AfterNone>>, <<ParentedPage, AfterNone>>}

---------------------------------------------------------------------------
(* The CMS attribute providers (pyhanko/sign/attributes.py). *)

\* Python's None, and an Optional[List]: None or a list
None == [some |-> FALSE]
NoList == [given |-> FALSE, items |-> <<>>]
List(items) == [given |-> TRUE, items |-> items]
\* the truth value of an Optional[List]: neither None nor empty
Truthy(lst) == lst.given /\ Len(lst.items) > 0

\* a provider instance; the fields a class does not have are None
Provider(class, attribute_type, digest_algorithm, data, value, ocsp_responses, crls) ==
    [class |-> class, attribute_type |-> attribute_type,
     digest_algorithm |-> digest_algorithm, data |-> data,
     value |-> value, ocsp_responses |-> ocsp_responses, crls |-> crls]

\* the writer specifications hold no provider
NoProvider == Provider("none", "", "", <<>>, None, NoList, NoList)

\* AdobeRevinfoProvider.__init__
AdobeRevinfoProvider(value, ocsp_responses, crls) ==
    Provider("AdobeRevinfoProvider", "adobe_revocation_info_archival", "", <<>>,
             value, ocsp_responses, crls)

\* TSTProvider.__init__
TSTProvider(digest_algorithm, data_to_ts, attr_type) ==
    Provider("TSTProvider", attr_type, digest_algorithm, data_to_ts, None, NoList, NoList)

\* asn1_pdf.RevocationInfoArchival(revinfo_dict): the fields of the dictionary
RevocationInfoArchival(revinfo_dict) ==
    [some |-> TRUE, kind |-> "RevocationInfoArchival", fields |-> revinfo_dict]

\* simple_cms_attribute(attr_type, value): one attribute with one value
simple_cms_attribute(attr_type, value) ==
    [some |-> TRUE, kind |-> "CMSAttribute", type |-> attr_type, values |-> <<value>>]

\* hashes.Hash(md_spec), update(data), finalize(): a digest of the bytes that
\* depends on the algorithm
HashModulus(digest_algorithm) == IF digest_algorithm = "sha1" THEN 251 ELSE 65521
RECURSIVE HashUpdate(_, _, _)
HashUpdate(h, data, m) ==
    IF data = <<>> THEN h ELSE HashUpdate((h * 31 + Head(data) + 1) % m, Tail(data), m)
Hash(digest_algorithm, data) ==
    HashUpdate(7, data, HashModulus(digest_algorithm))

\* TimeStamper.async_timestamp(message_digest, md_algorithm): a request to the
\* timestamping authority for a token over the digest
async_timestamp(ts, message_digest, md_algorithm) ==
    [value |-> [some |-> TRUE, kind |-> "TimeStampToken", dummy |-> FALSE,
                digest |-> message_digest, algorithm |-> md_algorithm],
     timestamper |-> Append(ts, [op |-> "timestamp", digest |-> message_digest,
                                 algorithm |-> md_algorithm])]

\* TimeStamper.async_dummy_response(md_algorithm): a token of the same size,
\* made without contacting the authority
async_dummy_response(ts, md_algorithm) ==
    [value |-> [some |-> TRUE, kind |-> "TimeStampToken", dummy |-> TRUE,
                digest |-> 0, algorithm |-> md_algorithm],
     timestamper |-> Append(ts, [op |-> "dummy_response", digest |-> 0,
                                 algorithm |-> md_algorithm])]

\* what a build returns: the value, the provider and the timestamper after it
Built(value, self, ts) == [value |-> value, self |-> self, timestamper |-> ts]

\* the build with the precomputed or cached value left unread
AdobeRevinfoProvider_build_uncached(self, ts, dry_run) ==
    LET keys == {k \in {"ocsp", "crl"} :
                    Truthy(IF k = "ocsp" THEN self.ocsp_responses ELSE self.crls)}
        revinfo_dict == [k \in keys |-> IF k = "ocsp" THEN self.ocsp_responses.items
                                        ELSE self.crls.items]
    IN  IF keys # {}
        THEN LET value == RevocationInfoArchival(revinfo_dict)
             IN  Built(value, [self EXCEPT !.value = value], ts)
        ELSE Built(None, self, ts)

AdobeRevinfoProvider_build_attr_value(self, ts, dry_run) ==
    IF self.value # None THEN Built(self.value, self, ts)
    ELSE LET keys == {k \in {"ocsp", "crl"} :
                         Truthy(IF k = "ocsp" THEN self.ocsp_responses ELSE self.crls)}
             revinfo_dict == [k \in keys |-> IF k = "ocsp" THEN self.ocsp_responses.items
                                             ELSE self.crls.items]
         IN  IF keys # {}
             THEN LET value == RevocationInfoArchival(revinfo_dict)
                  IN  Built(value, [self EXCEPT !.value = value], ts)
             ELSE Built(None, self, ts)

\* the build with the flag left unread: a request to the authority every time
TSTProvider_build_always_requests(self, ts, dry_run) ==
    LET r == async_timestamp(ts, Hash(self.digest_algorithm, self.data),
                             self.digest_algorithm)
    IN  Built(r.value, self, r.timestamper)

TSTProvider_build_attr_value(self, ts, dry_run) ==
    LET digest_algorithm == self.digest_algorithm
        r == IF dry_run THEN async_dummy_response(ts, digest_algorithm)
             ELSE async_timestamp(ts, Hash(digest_algorithm, self.data), digest_algorithm)
    IN  Built(r.value, self, r.timestamper)

\* the build_attr_value of the provider's class
build_attr_value(self, ts, dry_run) ==
    IF self.class = "TSTProvider" THEN TSTProvider_build_attr_value(self, ts, dry_run)
    ELSE AdobeRevinfoProvider_build_attr_value(self, ts, dry_run)

\* CMSAttributeProvider.get_attribute
get_attribute(self, ts, dry_run) ==
    LET b == build_attr_value(self, ts, dry_run)
    IN  IF b.value # None
        THEN Built(simple_cms_attribute(self.attribute_type, b.value), b.self, b.timestamper)
        ELSE Built(None, b.self, b.timestamper)

\* the providers a signing workflow makes
DigestAlgorithms == {"sha1", "sha256"}
DataInputs == {<<>>, <<1>>, <<1, 2>>, <<2, 1>>}
TSTProviders ==
    {TSTProvider(a, d, "signature_time_stamp_token") : a \in DigestAlgorithms, d \in DataInputs}
Precomputed == RevocationInfoArchival([k \in {"crl"} |-> <<"crl9">>])
AdobeRevinfoProviders ==
    {AdobeRevinfoProvider(v, o, c) :
        v \in {None, Precomputed},
        o \in {NoList, List(<<>>), List(<<"ocsp1">>)},
        c \in {NoList, List(<<>>), List(<<"crl1">>), List(<<"crl1", "crl2">>)}}

---------------------------------------------------------------------------
(* The operations. *)

Idle == pc \in {"idle", "done", "failed"}

\* write()'s locals and stream are gone once another operation runs
ResetWrite ==
    /\ pc' = "idle"
    /\ object_positions' = EmptyDict
    /\ pos_writes' = EmptyDict
    /\ out' = <<>>

Called(op, status, msg, arg, res) ==
    [op |-> op, status |-> status, msg |-> msg, arg |-> arg, res |-> res]

InitFrom(docs) ==
    /\ \E doc \in docs :
          /\ objects = doc.objects
          /\ lastobj_id = Len(doc.objects)
          /\ encrypt = doc.encrypt
          /\ stream_xrefs \in doc.modes
    /\ marked = {}
    /\ last = Called("init", "ok", "", <<>>, 0)
    /\ pc = "idle"
    /\ object_positions = EmptyDict
    /\ pos_writes = EmptyDict
    /\ out = <<>>
    /\ provider = NoProvider
    /\ timestamper = <<>>

Init == InitFrom(Documents)

AddObject ==
    /\ Idle
    /\ lastobj_id < MaxObj
    /\ \E obj \in {AnnotObj} :
          /\ objects' = add_object(objects, lastobj_id, obj)
          /\ lastobj_id' = lastobj_id + 1
          /\ last' = Called("add_object", "ok", "", <<>>, lastobj_id + 1)
    /\ marked' = {}
    /\ ResetWrite
    /\ UNCHANGED <<stream_xrefs, encrypt>>
    /\ UNCHANGED <<provider, timestamper>>

InsertPage ==
    /\ Idle
    /\ lastobj_id < MaxObj
    /\ \E input \in InsertInputs :
          LET r == insert_page(objects, lastobj_id, input[1], input[2])
          IN  /\ objects' = r.objects
              /\ lastobj_id' = r.lastobj_id
              /\ marked' = r.marked
              /\ last' = Called("insert_page", r.status, r.msg,
                                [page |-> input[1], after |-> input[2]], r.ref)
    /\ ResetWrite
    /\ UNCHANGED <<stream_xrefs, encrypt>>
    /\ UNCHANGED <<provider, timestamper>>

RegisterAnnotation ==
    /\ Idle
    /\ \E page_ref \in {i \in DOMAIN objects : objects[i].type = "Page"},
          annot_ref \in {i \in DOMAIN objects : objects[i].type = "Annot"} :
          /\ CountAnnots(objects, DOMAIN objects) < MaxAnnots
          /\ LET r == register_annotation(objects, lastobj_id, page_ref, annot_ref)
             IN  /\ objects' = r.objects
                 /\ marked' = r.marked
                 /\ last' = Called("register_annotation", r.status, r.msg,
                                   [page |-> page_ref, annot |-> annot_ref], 0)
    /\ ResetWrite
    /\ UNCHANGED <<lastobj_id, stream_xrefs, encrypt>>
    /\ UNCHANGED <<provider, timestamper>>

FindPage ==
    /\ Idle
    /\ \E page_ix \in -1..RootCount, retrieve_parent \in BOOLEAN :
          LET r == _walk_page_tree(objects, page_ix, retrieve_parent)
          IN  last' = Called(IF retrieve_parent THEN "find_page_container"
                             ELSE "find_page_for_modification",
                             r.status, r.msg, page_ix, r)
    /\ marked' = {}
    /\ ResetWrite
    /\ UNCHANGED <<objects, lastobj_id, stream_xrefs, encrypt>>
    /\ UNCHANGED <<provider, timestamper>>

\* write(), up to the call of _write_objects: the trailer is made and filled,
\* the header is written
WriteStart ==
    /\ Idle
    /\ pc' = "objects"
    /\ object_positions' = EmptyDict
    /\ pos_writes' = EmptyDict
    /\ out' = <<Piece("header", 0, HeaderLen, NoKey, <<>>)>>
    /\ last' = Called("write", "running", "", <<>>, 0)
    /\ marked' = {}
    /\ UNCHANGED <<objects, lastobj_id, stream_xrefs, encrypt>>
    /\ UNCHANGED <<provider, timestamper>>

\* self._write_objects(stream, object_positions)
WriteObjects ==
    /\ pc = "objects"
    /\ LET st == _write_objects(objects, encrypt,
                     [out |-> out, positions |-> object_positions, writes |-> pos_writes])
       IN  /\ out' = st.out
           /\ object_positions' = st.positions
           /\ pos_writes' = st.writes
    /\ pc' = "xref"
    /\ UNCHANGED <<objects, lastobj_id, stream_xrefs, encrypt, marked, last>>
    /\ UNCHANGED <<provider, timestamper>>

\* stream mode: the stream's own position goes into the position dictionary
WriteXrefRegister ==
    /\ pc = "xref"
    /\ stream_xrefs
    /\ LET xref_location == Tell(out)
           xrefs_id == XRefsId(lastobj_id)
       IN  /\ object_positions' = Assign(object_positions, <<0, xrefs_id>>, xref_location)
           /\ pos_writes' = Bump(pos_writes, <<0, xrefs_id>>)
    /\ pc' = "serialize"
    /\ UNCHANGED <<objects, lastobj_id, stream_xrefs, encrypt, marked, last, out>>
    /\ UNCHANGED <<provider, timestamper>>

\* stream mode: the stream is written as an indirect object, then the pointer
WriteXrefStream ==
    /\ pc = "serialize"
    /\ LET xrefs_id == XRefsId(lastobj_id)
           xref_location == Tell(out)
           r == XRefStream_write_to_stream(object_positions, TrailerKey(encrypt))
       IN  IF r.status # "ok"
           THEN /\ pc' = "failed"
                /\ out' = Append(out, Piece("objhead", xrefs_id, DecLen(xrefs_id) + 6, NoKey, <<>>))
                /\ last' = Called("write", r.status, r.msg, <<>>, 0)
           ELSE /\ pc' = "done"
                /\ out' = out \o <<Piece("xrefstream", xrefs_id,
                                         DecLen(xrefs_id) + 6 + 11 * Len(r.data) + 8,
                                         TrailerKey(encrypt), r),
                                   Piece("startxref", 0, 18 + DecLen(xref_location), NoKey,
                                         <<xref_location>>)>>
                /\ last' = Called("write", "ok", "", <<>>, 0)
    /\ UNCHANGED <<objects, lastobj_id, stream_xrefs, encrypt, marked,
                   object_positions, pos_writes>>
    /\ UNCHANGED <<provider, timestamper>>

\* table mode: the classic table, the trailer and the pointer
WriteXrefTable ==
    /\ pc = "xref"
    /\ ~stream_xrefs
    /\ LET xref_location == Tell(out)
           table == write_xref_table(object_positions)
       IN  out' = out \o <<Piece("xreftable", 0, 5 + 20 * Len(table), NoKey, table),
                           Piece("trailer", 0, 8 + DecLen(lastobj_id + 1), TrailerKey(encrypt), <<>>),
                           Piece("startxref", 0, 18 + DecLen(xref_location), NoKey,
                                 <<xref_location>>)>>
    /\ pc' = "done"
    /\ last' = Called("write", "ok", "", <<>>, 0)
    /\ UNCHANGED <<objects, lastobj_id, stream_xrefs, encrypt, marked,
                   object_positions, pos_writes>>
    /\ UNCHANGED <<provider, timestamper>>

Next ==
    \/ AddObject
    \/ InsertPage
    \/ RegisterAnnotation
    \/ FindPage
    \/ WriteStart
    \/ WriteObjects
    \/ WriteXrefRegister
    \/ WriteXrefStream
    \/ WriteXrefTable

Spec == Init /\ [][Next]_vars

---------------------------------------------------------------------------
(* Writers that start from any document, compliant or not. *)

InitAny == InitFrom(Documents \cup NonCompliantDocuments)

SpecAny == InitAny /\ [][Next]_vars

---------------------------------------------------------------------------
(* The cross-reference encoder on its own: the position dictionaries of    *)
(* generation 0 over the ids 1..MaxId, with offsets in any order.          *)

Offsets == {9, 15}

PositionDicts ==
    UNION {[{<<0, id>> : id \in ids} -> Offsets] : ids \in (SUBSET (1..MaxId)) \ {{}}}

InitXref == InitFrom({NewDocument})

ChunksCall ==
    /\ \E position_dict \in PositionDicts :
          last' = Called("_contiguous_xref_chunks", "ok", "", position_dict,
                         _contiguous_xref_chunks(position_dict))
    /\ out' = <<>>
    /\ UNCHANGED <<objects, lastobj_id, stream_xrefs, encrypt, marked, pc,
                   object_positions, pos_writes>>
    /\ UNCHANGED <<provider, timestamper>>

TableCall ==
    /\ \E position_dict \in PositionDicts :
          LET table == write_xref_table(position_dict)
          IN  /\ last' = Called("write_xref_table", "ok", "", position_dict, table)
              /\ out' = <<Piece("xreftable", 0, 5 + 20 * Len(table), NoKey, table)>>
    /\ UNCHANGED <<objects, lastobj_id, stream_xrefs, encrypt, marked, pc,
                   object_positions, pos_writes>>
    /\ UNCHANGED <<provider, timestamper>>

StreamCall ==
    /\ \E position_dict \in PositionDicts, encryption_key \in {NoKey, BaseKey} :
          LET r == XRefStream_write_to_stream(position_dict, encryption_key)
          IN  /\ last' = Called("XRefStream.write_to_stream", r.status, r.msg,
                                [position_dict |-> position_dict, key |-> encryption_key], r)
              /\ out' = IF r.status = "ok"
                        THEN <<Piece("xrefstream", 0, 11 * Len(r.data), encryption_key, r)>>
                        ELSE <<>>
    /\ UNCHANGED <<objects, lastobj_id, stream_xrefs, encrypt, marked, pc,
                   object_positions, pos_writes>>
    /\ UNCHANGED <<provider, timestamper>>

NextXref == ChunksCall \/ TableCall \/ StreamCall

SpecXref == InitXref /\ [][NextXref]_vars

---------------------------------------------------------------------------
(* A base writer made with any starting counter, on which objects are      *)
(* allocated and which is written any number of times.                     *)

\* the values of obj_id_start
ObjIdStarts == 0..2

\* BasePdfFileWriter.__init__(root, info, document_id, obj_id_start, stream_xrefs)
\* with a direct root, and info None or a direct dictionary
InitAlloc ==
    /\ \E obj_id_start \in ObjIdStarts, with_info \in BOOLEAN :
          LET rooted == add_object(<<>>, obj_id_start, CatalogObj(0))
          IN  /\ objects = IF with_info THEN add_object(rooted, obj_id_start + 1, InfoObj)
                           ELSE rooted
              /\ lastobj_id = IF with_info THEN obj_id_start + 2 ELSE obj_id_start + 1
              /\ last = Called("init", "ok", "", obj_id_start, 0)
    /\ stream_xrefs \in BOOLEAN
    /\ encrypt = 0
    /\ marked = {}
    /\ pc = "idle"
    /\ object_positions = EmptyDict
    /\ pos_writes = EmptyDict
    /\ out = <<>>
    /\ provider = NoProvider
    /\ timestamper = <<>>

NextAlloc ==
    \/ AddObject
    \/ WriteStart
    \/ WriteObjects
    \/ WriteXrefRegister
    \/ WriteXrefStream
    \/ WriteXrefTable

SpecAlloc == InitAlloc /\ [][NextAlloc]_vars

---------------------------------------------------------------------------
(* The attribute providers on their own: one provider instance, called any *)
(* number of times with either flag.                                       *)

InitAttr ==
    /\ objects = NewDocument.objects
    /\ lastobj_id = Len(NewDocument.objects)
    /\ encrypt = NewDocument.encrypt
    /\ stream_xrefs = TRUE
    /\ marked = {}
    /\ last = Called("init", "ok", "", <<>>, 0)
    /\ pc = "idle"
    /\ object_positions = EmptyDict
    /\ pos_writes = EmptyDict
    /\ out = <<>>
    /\ provider \in TSTProviders \cup AdobeRevinfoProviders
    /\ timestamper = <<>>

\* await provider.build_attr_value(dry_run=...)
BuildAttrValue ==
    /\ Len(timestamper) < MaxCalls
    /\ \E dry_run \in BOOLEAN :
          LET b == build_attr_value(provider, timestamper, dry_run)
          IN  /\ provider' = b.self
              /\ timestamper' = b.timestamper
              /\ last' = Called("build_attr_value", "ok", "",
                                [dry_run |-> dry_run, self |-> provider], b.value)
    /\ UNCHANGED <<objects, lastobj_id, stream_xrefs, encrypt, marked, pc,
                   object_positions, pos_writes, out>>

\* await provider.get_attribute(dry_run=...)
GetAttribute ==
    /\ Len(timestamper) < MaxCalls
    /\ \E dry_run \in BOOLEAN :
          LET b == get_attribute(provider, timestamper, dry_run)
          IN  /\ provider' = b.self
              /\ timestamper' = b.timestamper
              /\ last' = Called("get_attribute", "ok", "",
                                [dry_run |-> dry_run, self |-> provider], b.value)
    /\ UNCHANGED <<objects, lastobj_id, stream_xrefs, encrypt, marked, pc,
                   object_positions, pos_writes, out>>

NextAttr == BuildAttrValue \/ GetAttribute

SpecAttr == InitAttr /\ [][NextAttr]_vars

---------------------------------------------------------------------------
(* What the properties speak of. *)

PagesRoot == objects[root_ref].Pages

\* the pages below a node in depth-first Kids order
RECURSIVE Flat(_, _)
RECURSIVE FlatKids(_, _, _)
Flat(objs, ref) ==
    IF objs[ref].type = "Page" THEN <<ref>>
    ELSE IF objs[ref].type = "Pages" THEN FlatKids(objs, KidsOf(objs, ref), 1)
    ELSE <<>>
FlatKids(objs, kids, k) ==
    IF k > Len(kids) THEN <<>> ELSE Flat(objs, kids[k]) \o FlatKids(objs, kids, k + 1)

PagesNodes(objs) == {i \in DOMAIN objs : objs[i].type = "Pages"}

\* every Pages node counts the pages below it
Consistent(objs) == \A n \in PagesNodes(objs) : objs[n].Count = Len(Flat(objs, n))

\* the Pages nodes that hold ref in their Kids, directly or through other nodes
RECURSIVE HoldsBelow(_, _, _)
HoldsBelow(objs, n, ref) ==
    \E k \in 1..Len(KidsOf(objs, n)) :
        \/ KidsOf(objs, n)[k] = ref
        \/ /\ objs[KidsOf(objs, n)[k]].type = "Pages"
           /\ HoldsBelow(objs, KidsOf(objs, n)[k], ref)

\* the index of the piece that defines object id, and the offset it begins at
DefinitionOf(o, id) ==
    CHOOSE i \in 1..Len(o) : o[i].kind \in {"obj", "xrefstream"} /\ o[i].id = id
IsDefined(o, id) == \E i \in 1..Len(o) : o[i].kind \in {"obj", "xrefstream"} /\ o[i].id = id
DefinitionsOf(o, id) ==
    {i \in 1..Len(o) : o[i].kind \in {"obj", "xrefstream"} /\ o[i].id = id}
BeginsAt(o, i) == Tell(SubSeq(o, 1, i - 1))

\* the entry a cross-reference stream holds for object id: <<>> when none,
\* read from /Index (pairs of first id and count) and the entries in order
RECURSIVE XRefLookup(_, _, _, _, _)
XRefLookup(index, data, id, i, skipped) ==
    IF i > Len(index) THEN <<>>
    ELSE IF index[i] <= id /\ id < index[i] + index[i + 1]
         THEN data[skipped + (id - index[i]) + 1]
         ELSE XRefLookup(index, data, id, i + 2, skipped + index[i + 1])

XRefKey == <<0, lastobj_id + 1>>
ObjectKeys == {<<0, id>> : id \in DOMAIN objects}
StreamPieces == {i \in 1..Len(out) : out[i].kind = "xrefstream"}

---------------------------------------------------------------------------
\* C1: after a successful write() the position dictionary holds one entry,
\* assigned once, for every identity of the object mapping, equal to the offset
\* at which that object's definition begins; in stream mode it also holds the
\* entry of the cross-reference stream, assigned after every object was
\* written and before the stream is serialised, and the serialised stream
\* holds that entry.
C1_PositionsAfterWrite ==
    /\ pc = "done" =>
          /\ DOMAIN object_positions = ObjectKeys \cup (IF stream_xrefs THEN {XRefKey} ELSE {})
          /\ \A k \in DOMAIN object_positions :
                /\ pos_writes[k] = 1
                /\ Cardinality(DefinitionsOf(out, k[2])) = 1
                /\ object_positions[k] = BeginsAt(out, DefinitionOf(out, k[2]))
          /\ stream_xrefs => StreamPieces # {}
    /\ XRefKey \in DOMAIN object_positions =>
          /\ stream_xrefs
          /\ \A k \in ObjectKeys : k \in DOMAIN object_positions /\ IsDefined(out, k[2])
    /\ pc = "serialize" => XRefKey \in DOMAIN object_positions /\ StreamPieces = {}
    /\ \A i \in StreamPieces :
          /\ XRefKey \in DOMAIN object_positions
          /\ out[i].id = XRefKey[2]
          /\ \A k \in DOMAIN object_positions :
                XRefLookup(out[i].data.index, out[i].data.data, k[2], 1, 0)
                    = <<1, BeginsAt(out, DefinitionOf(out, k[2])), 0>>

\* a stream-mode write() of a document that has grown has completed
C1_Witness ==
    pc = "done" /\ stream_xrefs /\ lastobj_id > 4 /\ XRefKey \in DOMAIN object_positions

---------------------------------------------------------------------------
\* a step in which insert_page stored a page
InsertStep ==
    last'.op = "insert_page" /\ last'.status = "ok" /\ lastobj_id' = lastobj_id + 1

\* C2: from a page tree whose Counts are right, every Pages node's Count stays
\* the number of pages below it through any successful insert_page calls: a
\* call adds 1 to the Count of the insertion container and of each of its
\* ancestors and to no other, and the new page's Parent is the node that
\* holds it.
C2_InsertKeepsCounts ==
    /\ []Consistent(objects)
    /\ [][InsertStep =>
            LET container == objects'[last'.res].Parent
            IN  /\ container \in PagesNodes(objects)
                /\ \E k \in 1..Len(KidsOf(objects', container)) :
                       KidsOf(objects', container)[k] = last'.res
                /\ \A n \in PagesNodes(objects) :
                       objects'[n].Count = objects[n].Count
                           + (IF n = container \/ HoldsBelow(objects, n, container)
                              THEN 1 ELSE 0)
                /\ PagesNodes(objects') = PagesNodes(objects)]_vars

\* a page was inserted below a container that has two ancestors
C2_Witness ==
    /\ last.op = "insert_page" /\ last.status = "ok"
    /\ objects[objects[last.res].Parent].Parent # 0
    /\ objects[objects[objects[last.res].Parent].Parent].Parent # 0

---------------------------------------------------------------------------
\* the ids a chunk stands for: consecutive from its first id
ChunkIds(chunk) == {chunk[1] + j - 1 : j \in 1..Len(chunk[2])}

\* C3: the chunks of a non-empty position dictionary of generation 0 are
\* pairwise id-disjoint, cover exactly the ids of the dictionary, each hold for
\* the consecutive ids from its first id on the (offset, generation) recorded
\* for that id, and are maximal: no chunk starts at the id after the last id
\* of the chunk before it.
C3_ChunksPartition ==
    last.op = "_contiguous_xref_chunks" =>
        LET position_dict == last.arg
            chunks == last.res
            ids == {k[2] : k \in DOMAIN position_dict}
        IN  /\ Len(chunks) >= 1
            /\ \A i \in 1..Len(chunks) : Len(chunks[i][2]) >= 1
            /\ \A i, j \in 1..Len(chunks) :
                  i # j => ChunkIds(chunks[i]) \cap ChunkIds(chunks[j]) = {}
            /\ UNION {ChunkIds(chunks[i]) : i \in 1..Len(chunks)} = ids
            /\ \A i \in 1..Len(chunks) : \A j \in 1..Len(chunks[i][2]) :
                  /\ <<0, chunks[i][1] + j - 1>> \in DOMAIN position_dict
                  /\ chunks[i][2][j] = <<position_dict[<<0, chunks[i][1] + j - 1>>], 0>>
            /\ \A i \in 1..(Len(chunks) - 1) :
                  chunks[i + 1][1] > chunks[i][1] + Len(chunks[i][2])

\* a dictionary with a gap was split into a chunk of two ids and another
C3_Witness ==
    last.op = "_contiguous_xref_chunks" /\ Len(last.res) = 2 /\ Len(last.res[1][2]) = 2

---------------------------------------------------------------------------
\* the number of consecutive ids of a set from m on
RECURSIVE RunFrom(_, _)
RunFrom(ids, m) == IF m \in ids THEN 1 + RunFrom(ids, m + 1) ELSE 0

LeastOf(ids) == CHOOSE m \in ids : \A o \in ids : m <= o

\* C4: in the classic table the free-object entry (id 0, generation 65535) is
\* the first entry and the only one; with least id 1 the first subsection is
\* headed 0 and the first chunk's length plus 1 and holds the free entry, then
\* the chunk; with a least id above 1 the free entry is alone under `0 1` and
\* the first chunk follows under its own header; and every header's count is
\* the number of entries under it.
C4_FreeEntryFirst ==
    last.op = "write_xref_table" =>
        LET position_dict == last.arg
            lines == last.res
            ids == {k[2] : k \in DOMAIN position_dict}
            least == LeastOf(ids)
            n == RunFrom(ids, least)
        IN  /\ lines[1].t = "hdr" /\ lines[1].a = 0
            /\ lines[2] = [t |-> "f", a |-> 0, b |-> 65535]
            /\ \A i \in 1..Len(lines) : lines[i].t = "f" => i = 2
            /\ least = 1 =>
                  /\ lines[1].b = n + 1
                  /\ \A j \in 1..n : lines[2 + j] = XEntry(position_dict[<<0, j>>], 0)
            /\ least > 1 =>
                  /\ lines[1].b = 1
                  /\ lines[3] = XHeader(least, n)
                  /\ \A j \in 1..n :
                        lines[3 + j] = XEntry(position_dict[<<0, least + j - 1>>], 0)
            /\ \A i \in 1..Len(lines) : lines[i].t = "hdr" =>
                  /\ i + lines[i].b <= Len(lines)
                  /\ \A j \in 1..lines[i].b : lines[i + j].t # "hdr"
                  /\ i + lines[i].b < Len(lines) => lines[i + lines[i].b + 1].t = "hdr"

\* a table was written for ids that start above 1 and have a gap
C4_Witness ==
    /\ last.op = "write_xref_table"
    /\ <<0, 1>> \notin DOMAIN last.arg
    /\ Cardinality({i \in 1..Len(last.res) : last.res[i].t = "hdr"}) = 3

---------------------------------------------------------------------------
Encrypted == encrypt # 0 /\ stream_xrefs

---------------------------------------------------------------------------
\* s with x put at the 0-based index i
InsertedAt(s, i, x) ==
    [j \in 1..(Len(s) + 1) |-> IF j <= i THEN s[j] ELSE IF j = i + 1 THEN x ELSE s[j - 1]]

\* C6: on a consistent tree of N pages, insert_page(p, after=k) with 0 <= k < N
\* puts p at flat index k + 1 and keeps the order of the other pages; without
\* after, p becomes the last page; with after = -1 on an empty tree p becomes
\* page 0; the root's Count becomes N + 1.
C6_InsertPosition ==
    [][InsertStep /\ Consistent(objects) =>
          LET pages == Flat(objects, objects[root_ref].Pages)
              N == Len(pages)
              after == last'.arg.after
              now == Flat(objects', objects'[root_ref].Pages)
          IN  /\ (after.given /\ 0 <= after.v /\ after.v < N) =>
                    now = InsertedAt(pages, after.v + 1, last'.res)
              /\ ~after.given => now = InsertedAt(pages, N, last'.res)
              /\ (after.given /\ after.v = -1 /\ N = 0) => now = <<last'.res>>
              /\ objects'[objects'[root_ref].Pages].Count = N + 1]_vars

\* the scenario of the new document: a page inserted with after=None, then a
\* second one with after=0
C6_Witness ==
    /\ objects[root_ref].Pages = 3
    /\ last.op = "insert_page" /\ last.status = "ok"
    /\ last.arg.after = [given |-> TRUE, v |-> 0]
    /\ Flat(objects, 3) = <<4, 5>>
    /\ objects[3].Count = 2

---------------------------------------------------------------------------
\* C7: insert_page calls mark_update on every object that existed before the
\* call and whose serialised form the call changed: the container, the Kids
\* array when it is an indirect object, every ancestor whose Count grew.
C7_MarksEveryChange ==
    [][InsertStep =>
          \A id \in DOMAIN objects : objects'[id] # objects[id] => id \in marked']_vars

---------------------------------------------------------------------------
\* C8: register_annotation appends the annotation to the page's Annots array
\* and calls mark_update on exactly the object whose serialised form changed:
\* the page when Annots is absent or direct, the array object when Annots is
\* an indirect reference.
C8_AnnotationMarks ==
    [][last'.op = "register_annotation" /\ objects' # objects =>
          LET page == last'.arg.page
          IN  /\ AnnotsOf(objects', page) = Append(AnnotsOf(objects, page), last'.arg.annot)
              /\ marked' = {IF objects[page].Annots.st = "indirect"
                            THEN objects[page].Annots.ref ELSE page}
              /\ marked' = {id \in DOMAIN objects : objects'[id] # objects[id]}]_vars

---------------------------------------------------------------------------
Found == last.op \in {"find_page_container", "find_page_for_modification"}

\* C9: on a tree whose Counts are right, locating the flat index i with
\* 0 <= i < root Count finds the i-th page in depth-first Kids order:
\* find_page_for_modification returns its reference, find_page_container the
\* Pages node that holds it and the index of its reference in that node's Kids.
C9_FindsPage ==
    (Found /\ Consistent(objects) /\ 0 <= last.arg /\ last.arg < RootCount) =>
        /\ last.status = "ok"
        /\ LET page == Flat(objects, PagesRoot)[last.arg + 1]
           IN  /\ last.op = "find_page_for_modification" => last.res.ref = page
               /\ last.op = "find_page_container" =>
                     /\ last.res.ref \in PagesNodes(objects)
                     /\ last.res.kid_index \in 0..(Len(KidsOf(objects, last.res.ref)) - 1)
                     /\ KidsOf(objects, last.res.ref)[last.res.kid_index + 1] = page

\* a page that is not the first kid of a node below the root was located
C9_Witness ==
    /\ last.op = "find_page_container" /\ last.status = "ok"
    /\ last.res.ref # PagesRoot
    /\ last.res.kid_index > 0
    /\ Consistent(objects)

---------------------------------------------------------------------------
RangeMessages == {"Page index out of range", "Page not found"}
StructuralMessages == {"Not a page object", "/Parent must not be set."}

\* C10: the traversal fails with "out of range" exactly when the index is
\* negative or not below the root's Count; it fails with "not found", and
\* returns no page, only for an index in range on a tree whose Counts disagree
\* with its Kids; and insert_page reports one of these two for a page it
\* accepts, and a structural error for an object it does not accept.
C10_RangeErrors ==
    /\ Found =>
          /\ last.msg = "Page index out of range" <=> (last.arg < 0 \/ last.arg >= RootCount)
          /\ last.msg = "Page not found" =>
                /\ last.res.ref = 0
                /\ 0 <= last.arg /\ last.arg < RootCount
                /\ ~Consistent(objects)
          /\ last.status = "ValueError" <=> last.msg \in RangeMessages
          /\ last.status = "ok" <=> last.res.ref # 0
    /\ (last.op = "insert_page" /\ last.status # "ok") =>
          /\ last.status = "ValueError"
          /\ last.msg \in RangeMessages \cup StructuralMessages
          /\ last.msg \in StructuralMessages
                <=> (last.arg.page.type # "Page" \/ last.arg.page.Parent # 0)
          /\ last.msg = "Page index out of range" =>
                last.arg.after.given
                    /\ (last.arg.after.v < 0 \/ last.arg.after.v >= RootCount)

\* an index in range was not found although the tree holds a page of that index
C10_Witness ==
    /\ Found /\ last.msg = "Page not found"
    /\ last.arg < Len(Flat(objects, PagesRoot))

---------------------------------------------------------------------------
\* the /Resources in force at a node, read upwards through /Parent: the entry
\* of the nearest node that has the key (a non-empty one only, when nonempty
\* is set), an empty dictionary when none has
RECURSIVE ResourcesAbove(_, _, _)
ResourcesAbove(objs, ref, nonempty) ==
    IF ref = 0 THEN "empty"
    ELSE IF objs[ref].Resources # "absent" /\ (nonempty => objs[ref].Resources # "empty")
         THEN objs[ref].Resources
    ELSE ResourcesAbove(objs, objs[ref].Parent, nonempty)

\* C11 as stated: the dictionary the traversal returns for a page is the
\* nearest non-empty /Resources entry on the way from the root to the page,
\* an empty dictionary when no level has one.
C11_NearestNonEmpty ==
    (Found /\ last.status = "ok") =>
        last.res.rsrc = ResourcesAbove(objects, last.res.ref, TRUE)

\* C11: the dictionary the traversal returns is the /Resources entry of the
\* nearest level that has the key, empty or not, on the way from the root to
\* the page (to the container, for find_page_container); a level without the
\* key inherits, and the result is an empty dictionary when no level has it.
C11_NearestExplicit ==
    (Found /\ last.status = "ok") =>
        /\ last.res.rsrc = ResourcesAbove(objects, last.res.ref, FALSE)
        /\ last.res.rsrc # "absent"

\* a page without the key, under a node without it, got the dictionary of the
\* node above
C11_Witness ==
    /\ last.op = "find_page_for_modification" /\ last.status = "ok"
    /\ objects[last.res.ref].Resources = "absent"
    /\ objects[objects[last.res.ref].Parent].Resources = "absent"
    /\ last.res.rsrc \in {"R1", "R2"}

---------------------------------------------------------------------------
\* the value an operation on the provider returned: build_attr_value's own,
\* or the one get_attribute wrapped in the attribute
Provided == last.op \in {"build_attr_value", "get_attribute"}
ValueOf(l) == IF l.op = "get_attribute" /\ l.res # None THEN l.res.values[1] ELSE l.res

\* C12: every call of the timestamp-token provider, whatever calls came
\* before it on the same instance, makes exactly one call to the timestamper
\* and returns its token: with dry_run=True a dummy response for the
\* provider's algorithm and no timestamp request, with dry_run=False one
\* timestamp request carrying the digest of the provider's data and no dummy
\* response.
C12_DryRunChoosesRequest ==
    [][provider.class = "TSTProvider" =>
          LET dry_run == last'.arg.dry_run
              call == timestamper'[Len(timestamper')]
          IN  /\ Len(timestamper') = Len(timestamper) + 1
              /\ SubSeq(timestamper', 1, Len(timestamper)) = timestamper
              /\ call.algorithm = provider.digest_algorithm
              /\ dry_run => /\ call.op = "dummy_response"
                            /\ ValueOf(last').dummy
              /\ ~dry_run => /\ call.op = "timestamp"
                             /\ call.digest = Hash(provider.digest_algorithm, provider.data)
                             /\ ~ValueOf(last').dummy
                             /\ ValueOf(last').digest = call.digest
              /\ provider' = provider]_vars

\* one instance was called dry, then for real, then dry again, on data that
\* is not empty
C12_Witness ==
    /\ provider.class = "TSTProvider" /\ provider.data # <<>>
    /\ Provided
    /\ Len(timestamper) = 3
    /\ timestamper[1].op = "dummy_response"
    /\ timestamper[2].op = "timestamp"
    /\ timestamper[3].op = "dummy_response"

---------------------------------------------------------------------------
\* the archival value made of the lists a provider was given
SuppliedLists(self) ==
    {k \in {"ocsp", "crl"} : Truthy(IF k = "ocsp" THEN self.ocsp_responses ELSE self.crls)}

\* C13: get_attribute of the revocation-info archival provider returns no
\* attribute if the provider has no value and was given neither OCSP
\* responses nor CRLs (None or empty); otherwise it returns an attribute of
\* the provider's type holding a value; and a provider that has a value,
\* precomputed or computed by an earlier call, returns that value and keeps
\* it, whatever the dry-run flag.
C13_RevinfoValue ==
    (last.op = "get_attribute" /\ provider.class = "AdobeRevinfoProvider") =>
        LET before == last.arg.self
        IN  /\ last.res = None <=> (before.value = None /\ SuppliedLists(before) = {})
            /\ last.res # None =>
                  /\ last.res.type = "adobe_revocation_info_archival"
                  /\ ValueOf(last) # None
                  /\ provider.value = ValueOf(last)
            /\ before.value # None =>
                  /\ ValueOf(last) = before.value
                  /\ provider.value = before.value
            /\ (before.value = None /\ SuppliedLists(before) # {}) =>
                  /\ DOMAIN ValueOf(last).fields = SuppliedLists(before)
                  /\ \A k \in SuppliedLists(before) :
                        ValueOf(last).fields[k] =
                            IF k = "ocsp" THEN before.ocsp_responses.items
                            ELSE before.crls.items
            /\ provider.ocsp_responses = before.ocsp_responses
            /\ provider.crls = before.crls

\* a value computed by an earlier call was returned again by a dry run
C13_Witness ==
    /\ last.op = "get_attribute" /\ provider.class = "AdobeRevinfoProvider"
    /\ last.arg.dry_run
    /\ last.arg.self.value \notin {None, Precomputed}
    /\ last.res # None /\ ValueOf(last) = last.arg.self.value

---------------------------------------------------------------------------
\* the identities write() put in the position dictionary beside the objects'
Reserved == DOMAIN object_positions \ ObjectKeys

\* C14: the writer's constructor allocates from the starting counter plus 1;
\* every add_object returns the id one above the last allocated one, stores
\* the object under generation 0 of that id, which held nothing, and leaves
\* every stored object as it was; write() allocates nothing, writes every
\* object under generation 0, and in cross-reference-stream mode reserves for
\* the stream one identity that no stored object has.
C14_FreshIdentities ==
    /\ [](last.op = "init" => /\ DOMAIN objects = (last.arg + 1)..lastobj_id
                              /\ lastobj_id > last.arg)
    /\ [][lastobj_id' # lastobj_id \/ objects' # objects =>
             /\ last'.op = "add_object"
             /\ last'.res = lastobj_id + 1
             /\ lastobj_id' = last'.res
             /\ last'.res \notin DOMAIN objects
             /\ DOMAIN objects' = DOMAIN objects \cup {last'.res}
             /\ \A id \in DOMAIN objects : objects'[id] = objects[id]]_vars
    /\ [][last'.op = "add_object" => lastobj_id' = lastobj_id + 1]_vars
    /\ [](pc \in {"xref", "serialize", "done"} =>
             /\ ObjectKeys \subseteq DOMAIN object_positions
             /\ \A k \in DOMAIN object_positions : k[1] = 0)
    /\ [](pc \in {"serialize", "done"} /\ stream_xrefs =>
             /\ Cardinality(Reserved) = 1
             /\ \A k \in Reserved :
                   /\ k[2] \notin DOMAIN objects
                   /\ \A i \in StreamPieces : out[i].id = k[2])

\* a writer that started above 0 has allocated beyond its constructor and has
\* written a cross-reference stream
C14_Witness ==
    /\ pc = "done" /\ stream_xrefs
    /\ 1 \notin DOMAIN objects
    /\ Cardinality(DOMAIN objects) >= 3
    /\ StreamPieces # {}

====
